---- MODULE Spec2Model ----
(***************************************************************************)
(* A model of package generic (rewrite.go): the syntax-tree passes that    *)
(* specialise a template package (removeTypeDecl, rewriteIdent,            *)
(* rewriteTopLevelIdent), the parse / resolve / reprint cycle around them, *)
(* and the RewritePackage pipeline with its effects on the file system.    *)
(*                                                                         *)
(* A source file is modelled at two levels.  Its text is a record of       *)
(* names: package name, import paths, declarations.  Its syntax tree has   *)
(* the same shape, with every name an *ast.Ident [Name, Obj] and every     *)
(* FuncDecl / TypeSpec / ValueSpec carrying the identity (id) that Go      *)
(* gives it as a pointer.  An *ast.Object is [Kind, Name, Decl].           *)
(***************************************************************************)
EXTENDS Naturals, Sequences, FiniteSets, TLC

VARIABLES
    tmpl,       \* the template directory: path -> text of each source file
    typeMap,    \* the substitution map: placeholder -> Target [Ident, Import]
    env,        \* newPkgPath, GOPACKAGE and the file system before the run
    pc,         \* the position in RewritePackage (or in the pass sequence)
    pt,         \* the packageTarget [SameDir, NewName, NewPath]
    files,      \* files: path -> *ast.File
    dirty,      \* path -> the mutated tree as it is printed (line 274)
    prev,       \* the tree of the file in hand before the latest pass
    cur,        \* the path of the file in hand ("" when none)
    visited,    \* paths the loop in progress has visited
    tc,         \* the files handed to the type checker
    err,        \* the variable err of RewritePackage
    checked,    \* the outcome of the type check: "no" before it, "ok", "failed"
    deferred,   \* whether the rollback closure of line 346 is registered
    destDir,    \* the directory at pt.NewPath: [exists, entries]
    cwdDir      \* the current directory

vars == <<tmpl, typeMap, env, pc, pt, files, dirty, prev, cur, visited, tc,
          err, checked, deferred, destDir, cwdDir>>

(***************************************************************************)
(* Bounds of the input families.                                           *)
(***************************************************************************)
MaxSpecs == 2      \* specs in the template's type group (pass specification)
MaxOcc == 2        \* occurrences of the placeholder T in Process's body
PipeMaxSpecs == 1  \* the same two bounds for the pipeline specification
PipeMaxOcc == 1

(***************************************************************************)
(* Sequences.                                                              *)
(***************************************************************************)
MapSeq(s, G(_)) == [i \in 1..Len(s) |-> G(s[i])]

RECURSIVE Concat(_)
Concat(ss) == IF ss = <<>> THEN <<>> ELSE Head(ss) \o Concat(Tail(ss))

Count(s, e) == Cardinality({i \in 1..Len(s) : s[i] = e})

Range(s) == {s[i] : i \in 1..Len(s)}

(***************************************************************************)
(* Objects and identifiers.                                                *)
(***************************************************************************)
NilObj == [Kind |-> "nil", Name |-> "", Decl |-> <<>>]

NewObj(kind, name, decl) == [Kind |-> kind, Name |-> name, Decl |-> decl]

NewIdent(name, obj) == [Name |-> name, Obj |-> obj]

\* scope.Lookup: the first object declared under the name, nil when none
Lookup(objs, name) ==
    IF \E k \in 1..Len(objs) : objs[k].Name = name
    THEN objs[CHOOSE k \in 1..Len(objs) :
                /\ objs[k].Name = name
                /\ \A l \in 1..(k - 1) : objs[l].Name # name]
    ELSE NilObj

(***************************************************************************)
(* Traversal.  MapFile applies D to the declaring identifiers and R to     *)
(* the others; IdentsOf lists the identifiers in ast.Inspect's order.      *)
(***************************************************************************)
IsValueSpec(sp) == "Names" \in DOMAIN sp

MapSpec(sp, D(_), R(_)) ==
    IF IsValueSpec(sp)
    THEN [sp EXCEPT !.Names = MapSeq(@, D), !.Type = MapSeq(@, R)]
    ELSE [sp EXCEPT !.Name = D(@), !.Fields = MapSeq(@, D), !.Type = MapSeq(@, R)]

MapDecl(d, D(_), R(_)) ==
    IF d.node = "FuncDecl"
    THEN [d EXCEPT !.Recv = MapSeq(@, R), !.Name = D(@), !.Body = MapSeq(@, R)]
    ELSE [d EXCEPT !.Specs = [j \in 1..Len(@) |-> MapSpec(@[j], D, R)]]

MapFile(f, D(_), R(_)) ==
    [f EXCEPT !.Decls = [i \in 1..Len(@) |-> MapDecl(@[i], D, R)]]

MapIdents(f, G(_)) == MapFile(f, G, G)

SpecIdents(sp) ==
    IF IsValueSpec(sp) THEN sp.Names \o sp.Type
    ELSE <<sp.Name>> \o sp.Fields \o sp.Type

DeclIdents(d) ==
    IF d.node = "FuncDecl" THEN d.Recv \o <<d.Name>> \o d.Body
    ELSE Concat([j \in 1..Len(d.Specs) |-> SpecIdents(d.Specs[j])])

IdentsOf(f) == Concat([i \in 1..Len(f.Decls) |-> DeclIdents(f.Decls[i])])

TypeSpecsOf(f) ==
    Concat([i \in 1..Len(f.Decls) |->
              IF f.Decls[i].node = "GenDecl" /\ f.Decls[i].Tok = "type"
              THEN f.Decls[i].Specs ELSE <<>>])

(***************************************************************************)
(* parser.ParseFile (lines 246, 278, 293): the tree of a text, each        *)
(* identifier resolved against the declarations of its own file.  gen      *)
(* tells a first parse (0) from the reparse of a printed tree (1): the     *)
(* nodes of a reparse are new nodes.                                       *)
(***************************************************************************)
NodeId(path, gen, i, j) == <<path, gen, i, j>>

SpecObjects(id, sp) ==
    IF IsValueSpec(sp)
    THEN [k \in 1..Len(sp.Names) |-> NewObj("var", sp.Names[k], id)]
    ELSE <<NewObj("typ", sp.Name, id)>>

DeclObjects(path, gen, i, d) ==
    IF d.node = "FuncDecl"
    THEN IF d.Recv = <<>> THEN <<NewObj("fun", d.Name, NodeId(path, gen, i, 0))>>
         ELSE <<>>
    ELSE Concat([j \in 1..Len(d.Specs) |->
                   SpecObjects(NodeId(path, gen, i, j), d.Specs[j])])

FileObjects(path, gen, decls) ==
    Concat([i \in 1..Len(decls) |-> DeclObjects(path, gen, i, decls[i])])

ParseSpec(id, sp, objs) ==
    IF IsValueSpec(sp)
    THEN [id |-> id,
          Names |-> [k \in 1..Len(sp.Names) |->
                       NewIdent(sp.Names[k], NewObj("var", sp.Names[k], id))],
          Type |-> [k \in 1..Len(sp.Type) |->
                      NewIdent(sp.Type[k], Lookup(objs, sp.Type[k]))]]
    ELSE [id |-> id,
          Name |-> NewIdent(sp.Name, NewObj("typ", sp.Name, id)),
          Shape |-> sp.Shape,
          Fields |-> [k \in 1..Len(sp.Fields) |->
                        NewIdent(sp.Fields[k],
                              NewObj("var", sp.Fields[k], id \o <<k>>))],
          Type |-> [k \in 1..Len(sp.Type) |->
                      NewIdent(sp.Type[k], Lookup(objs, sp.Type[k]))]]

ParseDecl(path, gen, i, d, objs) ==
    IF d.node = "FuncDecl"
    THEN [node |-> "FuncDecl",
          id |-> NodeId(path, gen, i, 0),
          Recv |-> [k \in 1..Len(d.Recv) |->
                      NewIdent(d.Recv[k], Lookup(objs, d.Recv[k]))],
          Name |-> NewIdent(d.Name,
                         IF d.Recv = <<>>
                         THEN NewObj("fun", d.Name, NodeId(path, gen, i, 0))
                         ELSE NilObj),
          Body |-> [k \in 1..Len(d.Body) |->
                      NewIdent(d.Body[k], Lookup(objs, d.Body[k]))]]
    ELSE [node |-> "GenDecl",
          Tok |-> d.Tok,
          Specs |-> [j \in 1..Len(d.Specs) |->
                       ParseSpec(NodeId(path, gen, i, j), d.Specs[j], objs)]]

ParseFile(path, gen, text) ==
    LET objs == FileObjects(path, gen, text.Decls)
    IN  [Name |-> text.Name,
         Imports |-> text.Imports,
         Decls |-> [i \in 1..Len(text.Decls) |->
                      ParseDecl(path, gen, i, text.Decls[i], objs)]]

(***************************************************************************)
(* printer.Fprint (line 274): the text of a tree, names only.              *)
(***************************************************************************)
PrintSpec(sp) ==
    IF IsValueSpec(sp)
    THEN [Names |-> [k \in 1..Len(sp.Names) |-> sp.Names[k].Name],
          Type |-> [k \in 1..Len(sp.Type) |-> sp.Type[k].Name]]
    ELSE [Name |-> sp.Name.Name,
          Shape |-> sp.Shape,
          Fields |-> [k \in 1..Len(sp.Fields) |-> sp.Fields[k].Name],
          Type |-> [k \in 1..Len(sp.Type) |-> sp.Type[k].Name]]

PrintDecl(d) ==
    IF d.node = "FuncDecl"
    THEN [node |-> "FuncDecl",
          Recv |-> [k \in 1..Len(d.Recv) |-> d.Recv[k].Name],
          Name |-> d.Name.Name,
          Body |-> [k \in 1..Len(d.Body) |-> d.Body[k].Name]]
    ELSE [node |-> "GenDecl",
          Tok |-> d.Tok,
          Specs |-> [j \in 1..Len(d.Specs) |-> PrintSpec(d.Specs[j])]]

Fprint(f) ==
    [Name |-> f.Name,
     Imports |-> f.Imports,
     Decls |-> [i \in 1..Len(f.Decls) |-> PrintDecl(f.Decls[i])]]

(***************************************************************************)
(* ast.NewPackage (line 259): identifiers a file left unresolved are       *)
(* resolved against the declarations of the whole package.                 *)
(***************************************************************************)
\* the files of the map, one after the other (NewPackage ranges over the map;
\* the order shows only when two files declare one name, which no template does)
RECURSIVE PathSeq(_)
PathSeq(S) ==
    IF S = {} THEN <<>>
    ELSE LET p == CHOOSE q \in S : TRUE IN <<p>> \o PathSeq(S \ {p})

PackageObjects(fs) ==
    Concat([k \in 1..Len(PathSeq(DOMAIN fs)) |->
              LET f == fs[PathSeq(DOMAIN fs)[k]]
              IN  Concat([i \in 1..Len(f.Decls) |->
                    IF f.Decls[i].node = "FuncDecl"
                    THEN IF f.Decls[i].Name.Obj = NilObj THEN <<>>
                         ELSE <<f.Decls[i].Name.Obj>>
                    ELSE Concat([j \in 1..Len(f.Decls[i].Specs) |->
                           LET sp == f.Decls[i].Specs[j]
                           IN  IF IsValueSpec(sp)
                               THEN [n \in 1..Len(sp.Names) |-> sp.Names[n].Obj]
                               ELSE <<sp.Name.Obj>>])])])

ResolveIdent(x, objs) ==
    IF x.Obj = NilObj THEN [x EXCEPT !.Obj = Lookup(objs, x.Name)] ELSE x

NewPackage(fs) ==
    LET objs == PackageObjects(fs)
        Keep(x) == x
        Res(x) == ResolveIdent(x, objs)
    IN  [p \in DOMAIN fs |-> MapFile(fs[p], Keep, Res)]

(***************************************************************************)
(* rewritePkgName (lines 24-26).                                           *)
(***************************************************************************)
rewritePkgName(node, pkgName) == [node EXCEPT !.Name = pkgName]

(***************************************************************************)
(* rewriteIdent (lines 29-63).                                             *)
(***************************************************************************)
\* lines 34-40: the identifier is one the pass renames
Substitutes(x, tm) ==
    /\ ~(x.Obj = NilObj \/ x.Obj.Kind # "typ")
    /\ x.Name \in DOMAIN tm

\* a variant that forgets the test of line 34
RewriteIdentNameAnyKind(x, tm) ==
    IF x.Name \in DOMAIN tm THEN [x EXCEPT !.Name = tm[x.Name].Ident] ELSE x

RewriteIdentName(x, tm) ==
    IF Substitutes(x, tm) THEN [x EXCEPT !.Name = tm[x.Name].Ident] ELSE x

\* a variant that forgets the test of line 43
RECURSIVE UsedImportsWithEmpty(_, _, _)
UsedImportsWithEmpty(ids, tm, used) ==
    IF ids = <<>> THEN used
    ELSE LET x == Head(ids)
         IN  IF /\ Substitutes(x, tm)
                /\ tm[x.Name].Import \notin Range(used)
             THEN UsedImportsWithEmpty(Tail(ids), tm, Append(used, tm[x.Name].Import))
             ELSE UsedImportsWithEmpty(Tail(ids), tm, used)

\* lines 43-55: the import paths the renamed identifiers need, each once
RECURSIVE UsedImports(_, _, _)
UsedImports(ids, tm, used) ==
    IF ids = <<>> THEN used
    ELSE LET x == Head(ids)
         IN  IF /\ Substitutes(x, tm)
                /\ tm[x.Name].Import # ""
                /\ tm[x.Name].Import \notin Range(used)
             THEN UsedImports(Tail(ids), tm, Append(used, tm[x.Name].Import))
             ELSE UsedImports(Tail(ids), tm, used)

\* astutil.AddImport: "adds the import path to the file f, if absent"
AddImport(node, im) ==
    IF im \in Range(node.Imports) THEN node
    ELSE [node EXCEPT !.Imports = Append(@, im)]

\* lines 60-62
RECURSIVE AddImports(_, _)
AddImports(node, used) ==
    IF used = <<>> THEN node
    ELSE AddImports(AddImport(node, Head(used)), Tail(used))

rewriteIdent(node, tm) ==
    LET Rename(x) == RewriteIdentName(x, tm)
    IN  AddImports(MapIdents(node, Rename), UsedImports(IdentsOf(node), tm, <<>>))

(***************************************************************************)
(* removeTypeDecl (lines 66-95).                                           *)
(***************************************************************************)
\* a variant that forgets the test of line 84
SpecMatchesAnyShape(sp, tm) == sp.Name.Name \in DOMAIN tm

\* lines 79-87: the spec is named in typeMap and defined as a bare identifier
SpecMatches(sp, tm) ==
    /\ sp.Name.Name \in DOMAIN tm
    /\ sp.Shape = "Ident"

\* lines 68-90: the flag remove of one declaration
RemoveFlag(d, tm) ==
    /\ d.node = "GenDecl"
    /\ d.Tok = "type"
    /\ \E j \in 1..Len(d.Specs) : SpecMatches(d.Specs[j], tm)

\* lines 67, 91-93: from the last declaration to the first
RECURSIVE RemoveLoop(_, _, _)
RemoveLoop(decls, i, tm) ==
    IF i = 0 THEN decls
    ELSE IF RemoveFlag(decls[i], tm)
         THEN RemoveLoop(SubSeq(decls, 1, i - 1) \o SubSeq(decls, i + 1, Len(decls)),
                         i - 1, tm)
         ELSE RemoveLoop(decls, i - 1, tm)

removeTypeDecl(node, tm) == [node EXCEPT !.Decls = RemoveLoop(@, Len(@), tm)]

(***************************************************************************)
(* findDecl (lines 98-122): the type declarations of a sibling file, each  *)
(* definition replaced by the identifier uint32.                           *)
(***************************************************************************)
StubSpec(sp) ==
    [sp EXCEPT !.Shape = "Ident", !.Fields = <<>>,
               !.Type = <<NewIdent("uint32", NilObj)>>]

findDecl(node) ==
    Concat([i \in 1..Len(node.Decls) |->
              LET d == node.Decls[i]
              IN  IF d.node = "GenDecl" /\ d.Tok = "type"
                  THEN <<[d EXCEPT !.Specs = MapSeq(@, StubSpec)]>>
                  ELSE <<>>])

(***************************************************************************)
(* rewriteTopLevelIdent (lines 127-180).                                   *)
(***************************************************************************)
\* lintName is defined in a file of the package that is not at hand; the
\* specification gives the new name as the prefix, an underscore and the name
lintName(name) == name

\* lines 128-130
prefixIdent(prefix, name) == lintName(prefix \o "_" \o name)

\* lines 145-151: a type spec that rewriteIdent has renamed is not prefixed
AlreadyRewritten(sp, tm) ==
    LET obj == sp.Name.Obj
    IN  /\ obj # NilObj
        /\ obj.Kind = "typ"
        /\ obj.Name \in DOMAIN tm
        /\ sp.Name.Name = tm[obj.Name].Ident

\* lines 142-159, the names: every name of a value spec, the name of a type spec
PrefixSpec(sp, prefix, tm) ==
    LET Pre(x) == [x EXCEPT !.Name = prefixIdent(prefix, @)]
    IN  IF IsValueSpec(sp) THEN [sp EXCEPT !.Names = MapSeq(@, Pre)]
        ELSE IF AlreadyRewritten(sp, tm) THEN sp
        ELSE [sp EXCEPT !.Name = Pre(@)]

\* lines 133-162, the names
PrefixDecl(d, prefix, tm) ==
    IF d.node = "FuncDecl"
    THEN IF d.Recv # <<>> THEN d
         ELSE [d EXCEPT !.Name.Name = prefixIdent(prefix, @)]
    ELSE [d EXCEPT !.Specs = [j \in 1..Len(@) |-> PrefixSpec(@[j], prefix, tm)]]

\* lines 140, 153, 157: the entries of declMap one spec leaves; a value spec
\* is assigned once per name, and the last assignment stays
SpecEntries(sp, prefix, tm) ==
    IF IsValueSpec(sp)
    THEN IF sp.Names = <<>> THEN {}
         ELSE {<<sp.id, prefixIdent(prefix, sp.Names[Len(sp.Names)].Name)>>}
    ELSE IF AlreadyRewritten(sp, tm) THEN {}
    ELSE {<<sp.id, prefixIdent(prefix, sp.Name.Name)>>}

DeclEntries(d, prefix, tm) ==
    IF d.node = "FuncDecl"
    THEN IF d.Recv # <<>> THEN {}
         ELSE {<<d.id, prefixIdent(prefix, d.Name.Name)>>}
    ELSE UNION {SpecEntries(d.Specs[j], prefix, tm) : j \in 1..Len(d.Specs)}

\* declMap after the loop of lines 133-162
DeclMap(node, prefix, tm) ==
    LET entries == UNION {DeclEntries(node.Decls[i], prefix, tm) :
                            i \in 1..Len(node.Decls)}
    IN  [id \in {e[1] : e \in entries} |->
           (CHOOSE e \in entries : e[1] = id)[2]]

\* lines 165-179
RenameUse(x, declMap) ==
    IF x.Obj = NilObj \/ x.Obj.Decl = <<>> THEN x
    ELSE IF x.Obj.Decl \notin DOMAIN declMap THEN x
    ELSE [x EXCEPT !.Name = declMap[x.Obj.Decl]]

rewriteTopLevelIdent(node, prefix, tm) ==
    LET declMap == DeclMap(node, prefix, tm)
        renamed == [node EXCEPT !.Decls =
                      [i \in 1..Len(@) |-> PrefixDecl(@[i], prefix, tm)]]
        Use(x) == RenameUse(x, declMap)
    IN  MapIdents(renamed, Use)

(***************************************************************************)
(* Strings: paths and names.                                               *)
(***************************************************************************)
TemplateDir == "gopath/src/tmpl"  \* line 245: $GOPATH/src/<pkgPath>

EntryNames == {"a.go", "a_test.go", "b.go", "doc.md", "sub.go", "main.go"}

Stems == {"a", "a_test", "b", "doc", "sub", "main"}

DirNames == {TemplateDir, ".", "out"}

\* strings.HasSuffix on a path dir/name
HasSuffix(s, suffix) ==
    \E d \in DirNames, stem \in Stems \cup {""} : s = d \o "/" \o stem \o suffix

\* filepath.Base: the last element of the path
Base(path) ==
    IF \E d \in DirNames, b \in EntryNames \cup {"pkg"} : path = d \o "/" \o b
    THEN CHOOSE b \in EntryNames \cup {"pkg"} :
           \E d \in DirNames : path = d \o "/" \o b
    ELSE path

Prefixes == {"g", "g_x"}

\* strings.HasPrefix(path, ".") and strings.TrimPrefix(path, ".")
HasDotPrefix(path) == \E r \in Prefixes \cup {""} : path = "." \o r

TrimDotPrefix(path) ==
    IF HasDotPrefix(path)
    THEN CHOOSE r \in Prefixes \cup {""} : path = "." \o r
    ELSE path

(***************************************************************************)
(* walkSource (lines 183-205): the paths handed to sourceFunc, in the      *)
(* order of the directory listing.                                         *)
(***************************************************************************)
\* a variant that forgets the test of line 196
IsSourceWithTests(pkgPath, info) ==
    /\ ~info.isDir
    /\ HasSuffix(pkgPath \o "/" \o info.name, ".go")

IsSource(pkgPath, info) ==
    LET path == pkgPath \o "/" \o info.name
    IN  /\ ~info.isDir
        /\ HasSuffix(path, ".go")
        /\ ~HasSuffix(path, "_test.go")

RECURSIVE SourcePaths(_, _)
SourcePaths(pkgPath, listing) ==
    IF listing = <<>> THEN <<>>
    ELSE (IF IsSource(pkgPath, Head(listing))
          THEN <<pkgPath \o "/" \o Head(listing).name>> ELSE <<>>)
         \o SourcePaths(pkgPath, Tail(listing))

\* the text of the file at a path of the listing
TextAt(pkgPath, listing, path) ==
    (CHOOSE info \in Range(listing) : pkgPath \o "/" \o info.name = path).text

(***************************************************************************)
(* parsePackageTarget (lines 214-229).                                     *)
(***************************************************************************)
parsePackageTarget(path, gopackage) ==
    IF HasDotPrefix(path)
    THEN IF gopackage = ""
         THEN [err |-> "GOPACKAGE cannot be empty"]
         ELSE [err |-> "nil",
               t |-> [SameDir |-> TRUE, NewPath |-> TrimDotPrefix(path),
                      NewName |-> gopackage]]
    ELSE [err |-> "nil",
          t |-> [SameDir |-> FALSE, NewPath |-> path, NewName |-> Base(path)]]

(***************************************************************************)
(* The inputs: template packages, substitution maps, destinations.         *)
(***************************************************************************)
TypeNames == {"T", "U", "K"}

FuncText(recv, name, body) ==
    [node |-> "FuncDecl", Recv |-> recv, Name |-> name, Body |-> body]

GenText(tok, specs) == [node |-> "GenDecl", Tok |-> tok, Specs |-> specs]

ValueText(names, type) == [Names |-> names, Type |-> type]

\* type n int   and   type n struct { T U }
TypeTexts ==
    {[Name |-> n, Shape |-> "Ident", Fields |-> <<>>, Type |-> <<"int">>] :
        n \in TypeNames}
    \cup {[Name |-> n, Shape |-> "StructType", Fields |-> <<"T">>, Type |-> <<"U">>] :
        n \in TypeNames}

\* type ( ... ): up to maxSpecs specs of different names
TypeGroups(maxSpecs) ==
    {g \in UNION {[1..n -> TypeTexts] : n \in 1..maxSpecs} :
        \A i, j \in 1..Len(g) : g[i].Name = g[j].Name => i = j}

\* a.go: the type group, a function using T nocc times, a method, variables
FileA(group, nocc, imports) ==
    [Name |-> "tmpl",
     Imports |-> imports,
     Decls |-> << GenText("type", group),
                  FuncText(<<>>, "Process", [k \in 1..nocc |-> "T"] \o <<"v", "x_v">>),
                  FuncText(<<"T">>, "Size", <<"Process", "a">>),
                  GenText("var", << ValueText(<<"v">>, <<"int">>),
                                    ValueText(<<"a", "b">>, <<"U">>) >>),
                  GenText("var", << ValueText(<<"x_v">>, <<"K">>) >>) >>]

\* b.go: a function using what a.go declares
FileB ==
    [Name |-> "tmpl",
     Imports |-> <<>>,
     Decls |-> << FuncText(<<>>, "Use", <<"Process", "T", "b", "K">>) >>]

NoText == [Name |-> "", Imports |-> <<>>, Decls |-> <<>>]

\* the listing of the template directory, as ioutil.ReadDir sorts it
Listing(group, nocc, imports) ==
    << [name |-> "a.go", isDir |-> FALSE, text |-> FileA(group, nocc, imports)],
       [name |-> "a_test.go", isDir |-> FALSE, text |-> NoText],
       [name |-> "b.go", isDir |-> FALSE, text |-> FileB],
       [name |-> "doc.md", isDir |-> FALSE, text |-> NoText],
       [name |-> "sub.go", isDir |-> TRUE, text |-> NoText] >>

Templates(maxSpecs, maxOcc) ==
    {Listing(g, n, im) : g \in TypeGroups(maxSpecs), n \in 1..maxOcc,
                         im \in {<<>>, <<"ext">>}}

Targets == {[Ident |-> "U", Import |-> ""], [Ident |-> "X", Import |-> "ext"]}

TypeMaps == UNION {[D -> Targets] : D \in SUBSET {"T", "U"}}

\* main.go, a file already in the current directory
Sibling ==
    [Name |-> "main",
     Imports |-> <<>>,
     Decls |-> << GenText("type", << [Name |-> "Local", Shape |-> "StructType",
                                      Fields |-> <<"n">>, Type |-> <<"int">>] >>),
                  FuncText(<<>>, "main", <<"Local">>) >>]

CwdListing ==
    << [name |-> "main.go", isDir |-> FALSE, text |-> Sibling] >>

\* the directory at the destination before the run
\* a directory: whether it exists, and its entries [name, content]
NoDir == [exists |-> FALSE, entries |-> {}]

OldDir(names) ==
    [exists |-> TRUE, entries |-> {[name |-> n, content |-> "old"] : n \in names}]

\* the directory at the destination before the run
DestBefore == {NoDir, OldDir({"old.txt", "a.go", "sub"})}

CwdBefore == OldDir({"main.go"})

Envs ==
    {[newPkgPath |-> "out/pkg", GOPACKAGE |-> g, dest |-> d] :
        g \in {"main"}, d \in DestBefore}
    \cup {[newPkgPath |-> "." \o p, GOPACKAGE |-> g, dest |-> NoDir] :
        p \in Prefixes, g \in {"", "main"}}

(***************************************************************************)
(* The passes one at a time: the body of the loop of lines 264-270 on one  *)
(* file after the other, each pass a step.                                 *)
(***************************************************************************)
ParseAll(listing) ==
    LET paths == SourcePaths(TemplateDir, listing)
    IN  [p \in Range(paths) |-> ParseFile(p, 0, TextAt(TemplateDir, listing, p))]

InitPasses ==
    /\ tmpl \in Templates(MaxSpecs, MaxOcc)
    /\ typeMap \in TypeMaps
    /\ env \in {e \in Envs : e.GOPACKAGE # "" /\ e.dest = NoDir}
    /\ pc = "load"
    /\ pt = <<>>
    /\ files = <<>>
    /\ dirty = <<>>
    /\ prev = <<>>
    /\ cur = ""
    /\ visited = {}
    /\ tc = <<>>
    /\ err = "nil"
    /\ checked = "no"
    /\ deferred = FALSE
    /\ destDir = env.dest
    /\ cwdDir = CwdBefore

Frame == UNCHANGED <<tmpl, typeMap, env, tc, err, checked, deferred, destDir, cwdDir, dirty>>

\* lines 238-259
PLoad ==
    /\ pc = "load"
    /\ pt' = parsePackageTarget(env.newPkgPath, env.GOPACKAGE).t
    /\ files' = NewPackage(ParseAll(tmpl))
    /\ pc' = "pick"
    /\ UNCHANGED <<prev, cur, visited>>
    /\ Frame

\* line 264: the next file of the map, in any order
PPick ==
    /\ pc = "pick"
    /\ \E p \in DOMAIN files \ visited :
          /\ cur' = p
          /\ prev' = files[p]
    /\ pc' = "pkgname"
    /\ UNCHANGED <<pt, files, visited>>
    /\ Frame

PassStep(at, next, result) ==
    /\ pc = at
    /\ prev' = files[cur]
    /\ files' = [files EXCEPT ![cur] = result]
    /\ pc' = next
    /\ UNCHANGED <<pt, cur>>
    /\ Frame

\* line 265
PPkgName ==
    /\ PassStep("pkgname", "remove", rewritePkgName(files[cur], pt.NewName))
    /\ UNCHANGED visited

\* line 266
PRemove ==
    /\ PassStep("remove", "ident", removeTypeDecl(files[cur], typeMap))
    /\ UNCHANGED visited

\* line 267
PIdent ==
    /\ PassStep("ident", IF pt.SameDir THEN "toplevel" ELSE "pick",
                rewriteIdent(files[cur], typeMap))
    /\ visited' = IF pt.SameDir THEN visited ELSE visited \cup {cur}

\* lines 268-270
PTopLevel ==
    /\ PassStep("toplevel", "pick",
                rewriteTopLevelIdent(files[cur], pt.NewPath, typeMap))
    /\ visited' = visited \cup {cur}

NextPasses == PLoad \/ PPick \/ PPkgName \/ PRemove \/ PIdent \/ PTopLevel

SpecPasses == InitPasses /\ [][NextPasses]_vars

(***************************************************************************)
(* RewritePackage (lines 235-367).                                         *)
(***************************************************************************)
Init ==
    /\ tmpl \in Templates(PipeMaxSpecs, PipeMaxOcc)
    /\ typeMap \in TypeMaps
    /\ env \in Envs
    /\ pc = "start"
    /\ pt = <<>>
    /\ files = <<>>
    /\ dirty = <<>>
    /\ prev = <<>>
    /\ cur = ""
    /\ visited = {}
    /\ tc = <<>>
    /\ err = "nil"
    /\ checked = "no"
    /\ deferred = FALSE
    /\ destDir = env.dest
    /\ cwdDir = CwdBefore

Inputs == <<tmpl, typeMap, env, prev, cur>>

\* m[k] = v, for a key the map may not hold yet
Put(m, k, v) == [q \in DOMAIN m \cup {k} |-> IF q = k THEN v ELSE m[q]]

\* the first path of the walk that the walk has not handed over yet
NextPath(paths, seen) ==
    paths[CHOOSE i \in 1..Len(paths) :
            /\ paths[i] \notin seen
            /\ \A j \in 1..(i - 1) : paths[j] \in seen]

\* os.Create followed by format.Node on the file: an entry of the directory
WriteEntry(dir, name, content) ==
    [dir EXCEPT !.entries =
        {e \in @ : e.name # name} \cup {[name |-> name, content |-> content]}]

\* a variant whose closure sees no error
RollbackNever(dir, isDeferred, e) == dir

\* the deferred closure of lines 346-350, run as RewritePackage returns
Rollback(dir, isDeferred, e) ==
    IF isDeferred /\ e # "nil" THEN NoDir ELSE dir

\* a variant that forgets the return of line 316
AfterCheckGoesOn(ok, target) ==
    IF target.SameDir THEN "emitSame" ELSE "removeAll"

\* lines 311-317: where the run goes after the type check
AfterCheck(ok, target) ==
    IF ~ok THEN "done"
    ELSE IF target.SameDir THEN "emitSame" ELSE "removeAll"

\* lines 238-241
ParseTarget ==
    /\ pc = "start"
    /\ LET r == parsePackageTarget(env.newPkgPath, env.GOPACKAGE)
       IN  IF r.err # "nil"
           THEN /\ err' = r.err
                /\ pc' = "done"
                /\ pt' = pt
           ELSE /\ pt' = r.t
                /\ pc' = "walk"
                /\ err' = err
    /\ UNCHANGED <<Inputs, checked, files, dirty, visited, tc, deferred, destDir, cwdDir>>

\* lines 184-187: ioutil.ReadDir of the template directory fails
ReadDirFails ==
    /\ pc = "walk"
    /\ DOMAIN files = {}
    /\ err' = "readdir"
    /\ pc' = "done"
    /\ UNCHANGED <<Inputs, checked, pt, files, dirty, visited, tc, deferred, destDir, cwdDir>>

\* lines 245-255: the next source file of the template is parsed
ParseNext ==
    /\ pc = "walk"
    /\ LET paths == SourcePaths(TemplateDir, tmpl)
           p == NextPath(paths, DOMAIN files)
       IN  \E ok \in BOOLEAN :
             IF ok
             THEN /\ files' = Put(files, p, ParseFile(p, 0, TextAt(TemplateDir, tmpl, p)))
                  /\ pc' = IF Range(paths) \subseteq DOMAIN files \cup {p}
                            THEN "newPackage" ELSE "walk"
                  /\ err' = err
             ELSE /\ err' = "parse"
                  /\ pc' = "done"
                  /\ files' = files
    /\ UNCHANGED <<Inputs, checked, pt, dirty, visited, tc, deferred, destDir, cwdDir>>

\* line 259
ResolvePackage ==
    /\ pc = "newPackage"
    /\ files' = NewPackage(files)
    /\ pc' = "rewrite"
    /\ visited' = {}
    /\ UNCHANGED <<Inputs, checked, pt, dirty, tc, err, deferred, destDir, cwdDir>>

\* lines 265-270: the passes on one file
RewriteFile(f, target, tm) ==
    LET renamed == rewriteIdent(removeTypeDecl(rewritePkgName(f, target.NewName), tm), tm)
    IN  IF target.SameDir THEN rewriteTopLevelIdent(renamed, target.NewPath, tm)
        ELSE renamed

\* lines 264-285: one turn of the loop, on any file the loop has not seen
RewriteNext ==
    /\ pc = "rewrite"
    /\ \E p \in DOMAIN files \ visited, outcome \in {"ok", "print", "parse"} :
          LET f == RewriteFile(files[p], pt, typeMap)
          IN  /\ dirty' = Put(dirty, p, f)
              /\ IF outcome = "ok"
                 THEN /\ files' = [files EXCEPT ![p] = ParseFile(p, 1, Fprint(f))]
                      /\ tc' = Append(tc, ParseFile(p, 1, Fprint(f)))
                      /\ visited' = visited \cup {p}
                      /\ pc' = IF DOMAIN files \subseteq visited \cup {p}
                                THEN (IF pt.SameDir THEN "siblings" ELSE "check")
                                ELSE "rewrite"
                      /\ err' = err
                 ELSE /\ err' = outcome
                      /\ pc' = "done"
                      /\ UNCHANGED <<files, tc, visited>>
    /\ UNCHANGED <<Inputs, checked, pt, deferred, destDir, cwdDir>>

\* lines 292-308: the files of the current directory give their type stubs
ParseSiblings ==
    /\ pc = "siblings"
    /\ \E outcome \in {"ok", "readdir", "parse"} :
          IF outcome = "ok"
          THEN LET paths == SourcePaths(".", CwdListing)
                   stubs == [k \in 1..Len(paths) |->
                               LET f == ParseFile(paths[k], 0,
                                                  TextAt(".", CwdListing, paths[k]))
                               IN  [Name |-> f.Name, Imports |-> <<>>,
                                    Decls |-> findDecl(f)]]
               IN  /\ tc' = tc \o SelectSeq(stubs, LAMBDA st : Len(st.Decls) > 0)
                   /\ pc' = "check"
                   /\ err' = err
          ELSE /\ err' = outcome
               /\ pc' = "done"
               /\ tc' = tc
    /\ UNCHANGED <<Inputs, checked, pt, files, dirty, visited, deferred, destDir, cwdDir>>

\* lines 310-317: the outcome of go/types is the type checker's
TypeCheck ==
    /\ pc = "check"
    /\ \E ok \in BOOLEAN :
          /\ pc' = AfterCheck(ok, pt)
          /\ err' = IF ok THEN err ELSE "typecheck"
          /\ checked' = IF ok THEN "ok" ELSE "failed"
    /\ visited' = {}
    /\ UNCHANGED <<Inputs, pt, files, dirty, tc, deferred, destDir, cwdDir>>

\* lines 319-335: one file written beside the others, no rollback
EmitSame ==
    /\ pc = "emitSame"
    /\ \E p \in DOMAIN files \ visited, outcome \in {"ok", "create", "format"} :
          LET name == pt.NewPath \o "_" \o Base(p)
          IN  /\ cwdDir' = IF outcome = "create" THEN cwdDir
                            ELSE WriteEntry(cwdDir, name,
                                            IF outcome = "ok" THEN "src" ELSE "partial")
              /\ err' = IF outcome = "ok" THEN "nil" ELSE outcome
              /\ visited' = IF outcome = "ok" THEN visited \cup {p} ELSE visited
              /\ pc' = IF outcome = "ok" /\ ~(DOMAIN files \subseteq visited \cup {p})
                        THEN "emitSame" ELSE "done"
    /\ UNCHANGED <<Inputs, checked, pt, files, dirty, tc, deferred, destDir>>

\* lines 337-340: a removal that fails may have removed part of the directory
RemoveAll ==
    /\ pc = "removeAll"
    /\ \/ /\ destDir' = NoDir
          /\ pc' = "mkdirAll"
          /\ err' = "nil"
       \/ /\ destDir.exists
          /\ \E left \in SUBSET destDir.entries :
                /\ left # {}
                /\ destDir' = [destDir EXCEPT !.entries = left]
          /\ pc' = "done"
          /\ err' = "removeall"
    /\ UNCHANGED <<Inputs, checked, pt, files, dirty, visited, tc, deferred, cwdDir>>

\* lines 342-350
MkdirAll ==
    /\ pc = "mkdirAll"
    /\ \E ok \in BOOLEAN :
          IF ok
          THEN /\ destDir' = [exists |-> TRUE, entries |-> {}]
               /\ deferred' = TRUE
               /\ pc' = "emitNew"
               /\ err' = "nil"
          ELSE /\ err' = "mkdirall"
               /\ pc' = "done"
               /\ UNCHANGED <<destDir, deferred>>
    /\ visited' = {}
    /\ UNCHANGED <<Inputs, checked, pt, files, dirty, tc, cwdDir>>

\* lines 352-366: one file written into the new directory; on an error the
\* function returns and the deferred closure runs
EmitNew ==
    /\ pc = "emitNew"
    /\ \E p \in DOMAIN files \ visited, outcome \in {"ok", "create", "format"} :
          LET written == IF outcome = "create" THEN destDir
                         ELSE WriteEntry(destDir, Base(p),
                                         IF outcome = "ok" THEN "src" ELSE "partial")
              e == IF outcome = "ok" THEN "nil" ELSE outcome
              last == DOMAIN files \subseteq visited \cup {p}
          IN  /\ err' = e
              /\ visited' = IF outcome = "ok" THEN visited \cup {p} ELSE visited
              /\ pc' = IF outcome = "ok" /\ ~last THEN "emitNew" ELSE "done"
              /\ destDir' = IF outcome = "ok" /\ ~last THEN written
                             ELSE Rollback(written, deferred, e)
    /\ UNCHANGED <<Inputs, checked, pt, files, dirty, tc, deferred, cwdDir>>

Next ==
    \/ ParseTarget
    \/ ReadDirFails
    \/ ParseNext
    \/ ResolvePackage
    \/ RewriteNext
    \/ ParseSiblings
    \/ TypeCheck
    \/ EmitSame
    \/ RemoveAll
    \/ MkdirAll
    \/ EmitNew

Spec == Init /\ [][Next]_vars

(***************************************************************************)
(* What the properties speak of.                                           *)
(***************************************************************************)
Keys == DOMAIN typeMap

IsTypeIdent(x) == x.Obj # NilObj /\ x.Obj.Kind = "typ"

\* the identifier is a placeholder occurrence: it resolves to a type
\* declaration and its name is a key of the map
IsPlaceholder(x) == IsTypeIdent(x) /\ x.Name \in Keys

NamesOf(ids) == [k \in 1..Len(ids) |-> ids[k].Name]

\* the identifiers that declare the file's top-level names: free functions,
\* types, values and variables
TopLevelIdents(f) ==
    Concat([i \in 1..Len(f.Decls) |->
              LET d == f.Decls[i]
              IN  IF d.node = "FuncDecl"
                  THEN IF d.Recv = <<>> THEN <<d.Name>> ELSE <<>>
                  ELSE Concat([j \in 1..Len(d.Specs) |->
                         IF IsValueSpec(d.Specs[j]) THEN d.Specs[j].Names
                         ELSE <<d.Specs[j].Name>>])])

MethodIdents(f) ==
    Concat([i \in 1..Len(f.Decls) |->
              IF f.Decls[i].node = "FuncDecl" /\ f.Decls[i].Recv # <<>>
              THEN <<f.Decls[i].Name>> ELSE <<>>])

\* the type group a spec is written in holds a bare alias named in the map
InGroupWithAlias(f, sp) ==
    \E i \in 1..Len(f.Decls) :
        /\ f.Decls[i].node = "GenDecl"
        /\ f.Decls[i].Tok = "type"
        /\ sp \in Range(f.Decls[i].Specs)
        /\ \E a \in Range(f.Decls[i].Specs) :
              a.Name.Name \in Keys /\ a.Shape = "Ident"

IsStructNamedInMap(sp) == sp.Shape = "StructType" /\ sp.Name.Name \in Keys

\* the positions in the pass sequence
AfterRemove == pc = "ident"

AfterIdent == pc = "toplevel" \/ (pc = "pick" /\ cur # "" /\ ~pt.SameDir)

AfterTopLevel == pc = "pick" /\ cur # "" /\ pt.SameDir

\* the file system is as it was before the run
Untouched == destDir = env.dest /\ cwdDir = CwdBefore

\* errors of the stages before emission
EarlyErrors == {"GOPACKAGE cannot be empty", "readdir", "parse", "print", "typecheck"}

(***************************************************************************)
(* C1.  No file-system mutation happens before the type check has          *)
(* succeeded: while the run is in a stage up to the type check, and when   *)
(* it has returned the error of such a stage, the destination directory    *)
(* and the current directory are as they were before the run; and they     *)
(* differ from that only when the type check has succeeded.                *)
(***************************************************************************)
C1_NoWriteBeforeCheck ==
    /\ ~Untouched => checked = "ok"
    /\ pc \in {"start", "walk", "newPackage", "rewrite", "siblings", "check"}
          => Untouched
    /\ (pc = "done" /\ err \in EarlyErrors) => Untouched

C1_Witness ==
    /\ pc = "done"
    /\ err = "typecheck"
    /\ checked = "failed"
    /\ env.dest.exists
    /\ destDir = env.dest

(***************************************************************************)
(* C2 as stated.  After rewriteIdent no identifier that resolves to a type *)
(* declaration carries a name that is a key of the map.                    *)
(***************************************************************************)
C2_NoKeyLeft ==
    AfterIdent =>
        \A x \in Range(IdentsOf(files[cur])) :
            IsTypeIdent(x) => x.Name \notin Keys

(***************************************************************************)
(* C2 amended.  rewriteIdent renames every placeholder occurrence P to     *)
(* M[P].Ident, once, and leaves every other identifier's name alone: an    *)
(* identifier that resolves to a type declaration carries a key of M       *)
(* after the pass only where that key is the concrete name of the Target   *)
(* of the placeholder it was.                                              *)
(***************************************************************************)
C2_RenamedOnce ==
    AfterIdent =>
        LET before == IdentsOf(prev)
            after == IdentsOf(files[cur])
        IN  /\ Len(after) = Len(before)
            /\ \A k \in 1..Len(before) :
                  /\ after[k].Obj = before[k].Obj
                  /\ IF IsPlaceholder(before[k])
                     THEN after[k].Name = typeMap[before[k].Name].Ident
                     ELSE after[k].Name = before[k].Name
                  /\ (IsTypeIdent(after[k]) /\ after[k].Name \in Keys)
                        => /\ IsPlaceholder(before[k])
                           /\ typeMap[before[k].Name].Ident = after[k].Name

C2_Witness ==
    /\ AfterIdent
    /\ \E k \in 1..Len(IdentsOf(prev)) :
          /\ IsPlaceholder(IdentsOf(prev)[k])
          /\ IdentsOf(prev)[k].Name = "T"
          /\ IdentsOf(files[cur])[k].Name = "U"
          /\ "U" \in Keys

(***************************************************************************)
(* C3.  After rewriteIdent an import path that a substituted occurrence    *)
(* needs is in the file's imports exactly once, however many occurrences   *)
(* need it and whether or not the file imported it before; nothing else    *)
(* is added, so a Target without import path adds no import.               *)
(***************************************************************************)
NeededImports(f) ==
    {typeMap[x.Name].Import : x \in {y \in Range(IdentsOf(f)) : IsPlaceholder(y)}}
        \ {""}

C4_OnlyAliasesRemoved ==
    AfterRemove =>
        \A sp \in Range(TypeSpecsOf(prev)) :
            (sp.Name.Name \notin Keys \/ sp.Shape # "Ident")
                => sp \in Range(TypeSpecsOf(files[cur]))

(***************************************************************************)
(* C5 as stated.  A structured type declaration whose name is a key of the *)
(* map is still in the file, with its name and its body, after             *)
(* removeTypeDecl and rewriteIdent (new-package mode).                     *)
(***************************************************************************)
C5_StructVerbatim ==
    (AfterIdent /\ ~pt.SameDir) =>
        LET original == NewPackage(ParseAll(tmpl))[cur]
        IN  \A sp \in Range(TypeSpecsOf(original)) :
              IsStructNamedInMap(sp)
                => \E sp2 \in Range(TypeSpecsOf(files[cur])) :
                      sp2.id = sp.id /\ PrintSpec(sp2) = PrintSpec(sp)

(***************************************************************************)
(* C5 amended.  A structured type declaration whose name P is a key of     *)
(* the map is left as it is by removeTypeDecl, unless its type group also  *)
(* holds a bare alias named in the map: then it goes with the group.       *)
(* rewriteIdent then renames a declaration that is left: its name becomes  *)
(* M[P].Ident and the placeholder type names of its body become their      *)
(* Targets' names; its shape, its field names and the other names of its   *)
(* body stay.                                                              *)
(***************************************************************************)
C5_StructKeptThenRenamed ==
    /\ AfterRemove =>
          \A sp \in Range(TypeSpecsOf(prev)) :
              IsStructNamedInMap(sp)
                => IF InGroupWithAlias(prev, sp)
                   THEN \A sp2 \in Range(TypeSpecsOf(files[cur])) : sp2.id # sp.id
                   ELSE sp \in Range(TypeSpecsOf(files[cur]))
    /\ AfterIdent =>
          \A sp \in Range(TypeSpecsOf(prev)) :
              IsStructNamedInMap(sp)
                => \E sp2 \in Range(TypeSpecsOf(files[cur])) :
                      /\ sp2.id = sp.id
                      /\ sp2.Name.Name = typeMap[sp.Name.Name].Ident
                      /\ sp2.Shape = sp.Shape
                      /\ NamesOf(sp2.Fields) = NamesOf(sp.Fields)
                      /\ Len(sp2.Type) = Len(sp.Type)
                      /\ \A k \in 1..Len(sp.Type) :
                            sp2.Type[k].Name =
                                IF IsPlaceholder(sp.Type[k])
                                THEN typeMap[sp.Type[k].Name].Ident
                                ELSE sp.Type[k].Name

C5_Witness ==
    /\ AfterIdent
    /\ ~pt.SameDir
    /\ \E sp \in Range(TypeSpecsOf(prev)), sp2 \in Range(TypeSpecsOf(files[cur])) :
          /\ IsStructNamedInMap(sp)
          /\ sp.Name.Name = "T"
          /\ sp2.id = sp.id
          /\ sp2.Name.Name = "X"

(***************************************************************************)
(* C6 as stated.  After rewriteTopLevelIdent every top-level name N of the *)
(* file (free function, type, each name of a value or variable             *)
(* declaration) is the prefix, an underscore and N; every identifier bound *)
(* to a top-level declaration carries the name of the identifier that      *)
(* declares it; names that differed before differ after; methods keep      *)
(* their names.  (A type that rewriteIdent has renamed is not prefixed:    *)
(* the statement leaves it out.)                                           *)
(***************************************************************************)
C6_EachNamePrefixed ==
    AfterTopLevel =>
        LET before == TopLevelIdents(prev)
            after == TopLevelIdents(files[cur])
            Exempt(x) == x.Obj.Kind = "typ" /\ x.Obj.Name \in Keys
        IN  /\ Len(after) = Len(before)
            /\ \A k \in 1..Len(before) :
                  Exempt(before[k])
                  \/ after[k].Name = pt.NewPath \o "_" \o before[k].Name
            /\ \A k, l \in 1..Len(before) :
                  before[k].Name # before[l].Name => after[k].Name # after[l].Name
            /\ \A x \in Range(IdentsOf(files[cur])), y \in Range(after) :
                  (x.Obj # NilObj /\ x.Obj = y.Obj) => x.Name = y.Name
            /\ NamesOf(MethodIdents(files[cur])) = NamesOf(MethodIdents(prev))

(***************************************************************************)
(* C7 as stated.  In same-directory mode, once the loop has rewritten all  *)
(* files, every identifier bound to a renamed top-level declaration        *)
(* carries the declaration's new name, in whichever file of the package    *)
(* it stands.                                                              *)
(***************************************************************************)
C7_UsesRenamedAcrossFiles ==
    pc = "siblings" =>
        \A p \in DOMAIN dirty, q \in DOMAIN dirty :
            \A x \in Range(IdentsOf(dirty[p])), y \in Range(TopLevelIdents(dirty[q])) :
                (x.Obj # NilObj /\ x.Obj = y.Obj /\ y.Name # y.Obj.Name)
                    => x.Name = y.Name

(***************************************************************************)
(* C8 as stated.  The top-level names a file gets under one prefix and the *)
(* names the same file gets under another prefix have no name in common,   *)
(* except the concrete names of the Targets.                               *)
(***************************************************************************)
C8_PrefixesDoNotCollide ==
    AfterTopLevel =>
        \A other \in Prefixes \ {pt.NewPath} :
            Range(NamesOf(TopLevelIdents(files[cur])))
              \cap Range(NamesOf(TopLevelIdents(rewriteTopLevelIdent(prev, other, typeMap))))
            \subseteq {typeMap[k].Ident : k \in Keys}

C10_ExactlyTheSources ==
    (pc = "done" /\ err = "nil" /\ ~pt.SameDir)
        => /\ destDir.exists
           /\ destDir.entries =
                 {[name |-> n, content |-> "src"] : n \in {"a.go", "b.go"}}

C10_Witness ==
    /\ pc = "done"
    /\ err = "nil"
    /\ ~pt.SameDir
    /\ env.dest.exists
    /\ \E e \in env.dest.entries : e.name = "old.txt"
    /\ \A e \in destDir.entries : e.name # "old.txt"

====
